---- MODULE Spec2Model ----
(***************************************************************************)
(* The zoxide history modal of superfile, in its two implementations:      *)
(*   package zoxide  (ZoxidePlugin / ZoxideModal,  zoxide.go 1-315)        *)
(*   package main    (ZoxidePlugin / zoxideModal,  zoxide.go 317-655)      *)
(* and the sidebar directory list of package internal (part_000).          *)
(* A behaviour is one run of one of the programs; impl says which.         *)
(* Strings are sequences of one-character strings, so that ToLower,        *)
(* Contains and the fuzzy match are computed and not assumed.              *)
(***************************************************************************)
EXTENDS Integers, Sequences, FiniteSets, TLC

VARIABLES
    impl,        \* "zoxide" or "main": the package this run executes
    isOpen,      \* package zoxide: ZoxidePlugin.isOpen
    initialized, \* package zoxide: ZoxidePlugin.initialized
    Modal,       \* package zoxide: *ZoxidePlugin.Modal (a ZoxideModal)
    pending,     \* package zoxide: commands returned by Open, not yet run
    emptyFlag,   \* package main: ZoxidePlugin.emptyFlag
    modal,       \* package main: *ZoxidePlugin.modal (a zoxideModal)
    ret,         \* the selectedDir returned by the last key handler
    panicked,    \* the run ended in a Go runtime panic (index out of range)
    last,        \* the last operation and the list it acted on
    stat,        \* package internal: the locations os.Stat finds
    pinnedFile,  \* package internal: the file variable.PinnedFile
    partitions,  \* package internal: what disk.Partitions(true) returns
    sidebarModel, \* package internal: the sidebar's list and cursor
    mu,          \* package zoxide: who holds ZoxidePlugin.mu
    ui,          \* package zoxide: where the UI goroutine is in its call
    observed,    \* package zoxide: the memory accesses seen so far
    sessions     \* package zoxide: the Opens the commands in flight belong to

internalVars == <<stat, pinnedFile, partitions, sidebarModel>>
raceVars == <<mu, ui, observed, sessions>>

vars == <<impl, isOpen, initialized, Modal, pending, emptyFlag, modal, ret,
          panicked, last, internalVars, raceVars>>

zoxideVars == <<isOpen, initialized, Modal, pending>>
mainVars == <<emptyFlag, modal>>

----------------------------------------------------------------------------
(* Bounds of the model *)

\* longest text typed into the search bar (the code's CharLimit is 100)
MaxQuery == 2
\* most commands returned by Open that are in flight at once
MaxPending == 1
\* the same, where every step of Open, Close and Update is a step of its own
MaxInFlight == 2

----------------------------------------------------------------------------
(* Strings *)

Max(a, b) == IF a > b THEN a ELSE b
Min(a, b) == IF a < b THEN a ELSE b

ToLowerChar(c) ==
    CASE c = "Q" -> "q" [] c = "A" -> "a" [] c = "H" -> "h" [] c = "D" -> "d"
      [] c = "P" -> "p" [] c = "V" -> "v" [] c = "M" -> "m" [] c = "T" -> "t"
      [] c = "S" -> "s" [] OTHER -> c

ToLower(s) == [i \in 1..Len(s) |-> ToLowerChar(s[i])]

\* strings.Contains(s, substr)
Contains(s, substr) ==
    \E i \in 0..(Len(s) - Len(substr)) : SubSeq(s, i + 1, i + Len(substr)) = substr

\* the paths the history source may list
P1 == <<"/", "q">>
P2 == <<"/", "Q", "a">>
P3 == <<"/", "a">>
P4 == <<"/", "a", "/", "q">>
P5 == <<"/", "q", "a", "q">>
P6 == <<"/", "a", "a">>
P7 == <<"/", "Q", "/", "a">>
P8 == <<"/", "a", "Q">>
P9 == <<"/", "q", "q">>
P10 == <<"/", "A">>
P11 == <<"/", "A", "/", "A">>

\* what `zoxide query -l --exclude <dir>` may print: no line, or these paths
HistoryOutputs ==
    { <<>>,
      <<P1>>,
      <<P3, P2, P1>>,
      <<P1, P2, P3, P4, P5, P6, P7, P8, P9, P10, P11>> }

\* one run of the external command: it fails, or prints out
SourceOutcomes ==
    { [err |-> TRUE, out |-> <<>>] } \cup
    { [err |-> FALSE, out |-> h] : h \in HistoryOutputs }

\* strings.Split(strings.TrimSpace(output), "\n"): empty output is one empty line
SplitLines(out) == IF out = <<>> THEN << <<>> >> ELSE out

\* the keys that are runes: in search mode the text input inserts them
Runes == {"q", "Q", "/"}
\* the keys pressed while browsing, and the keys pressed in search mode
\* besides enter and esc
BrowseKeys == {"enter", "esc", "q", "up", "down", "/", "Q", "backspace"}
\* the keys the browsing switch has a case for (the aliases k and j left out)
BoundKeys == {"enter", "esc", "q", "up", "down", "/"}
SearchKeys == {"Q", "/", "backspace", "up"}

\* textinput.Model.Update(msg) on the value: a rune is appended (up to the
\* limit), backspace deletes the last rune, other keys leave the value alone
TextInputUpdate(value, key) ==
    IF key \in Runes
    THEN IF Len(value) < MaxQuery THEN Append(value, key) ELSE value
    ELSE IF key = "backspace" /\ Len(value) > 0
         THEN SubSeq(value, 1, Len(value) - 1)
         ELSE value

\* the terminal sizes UpdateModalSize is called with
TermSizes == { <<50, 15>>, <<90, 30>> }

NoSelection == <<>>

\* the record kept in last: the operation, and the length of the displayed
\* list, the offset and the length of the search text it found
Did(op, displayed, offset, query) ==
    [op |-> op, n |-> Len(displayed), r |-> offset, q |-> Len(query)]

----------------------------------------------------------------------------
(* fzf-lib, as package zoxide uses it *)

\* fuzzy match of fzf: the term's runes occur in s in order
RECURSIVE FuzzyMatch(_, _)
FuzzyMatch(term, s) ==
    IF term = <<>> THEN TRUE
    ELSE IF s = <<>> THEN FALSE
    ELSE IF Head(term) = Head(s) THEN FuzzyMatch(Tail(term), Tail(s))
    ELSE FuzzyMatch(term, Tail(s))

\* the longest candidate
RECURSIVE MaxLenOf(_)
MaxLenOf(seq) == IF seq = <<>> THEN 0 ELSE Max(Len(Head(seq)), MaxLenOf(Tail(seq)))

\* candidates by length, shortest first, equal lengths in input order
RECURSIVE ByLength(_, _, _)
ByLength(seq, k, top) ==
    IF k > top THEN <<>>
    ELSE SelectSeq(seq, LAMBDA s : Len(s) = k) \o ByLength(seq, k + 1, top)

\* fzf.New(candidates, DefaultOptions()).Search(term), the Keys of
\* results.Matches: the candidates that match the term (smart case: a lower-case
\* term matches without regard to case), ranked; the rank is taken to be by
\* length; an empty term matches every candidate and leaves the input order
FzfSearch(candidates, term) ==
    LET smart(s) == IF term = ToLower(term) THEN ToLower(s) ELSE s
        matched == SelectSeq(candidates, LAMBDA s : FuzzyMatch(term, smart(s)))
    IN IF term = <<>> THEN candidates ELSE ByLength(matched, 0, MaxLenOf(matched))

----------------------------------------------------------------------------
(* package zoxide *)

\* the ZoxideModal that Init builds
zoxide_InitModal ==
    [Width |-> 60, Height |-> 20, Cursor |-> 0, RenderIndex |-> 0,
     Entries |-> <<>>, AllEntries |-> <<>>, SearchBar |-> <<>>,
     SearchMode |-> FALSE]

\* the rows View draws below the search line
zoxide_VisibleRows(m) == m.Height - 4

\* zoxide_applySearch showing the empty result when nothing matches
zoxide_applySearch_emptyResult(m) ==
    LET searchTerm == ToLower(m.SearchBar) IN
    IF searchTerm = <<>>
    THEN [m EXCEPT !.Entries = m.AllEntries, !.Cursor = 0, !.RenderIndex = 0]
    ELSE [m EXCEPT !.Entries = FzfSearch(m.AllEntries, searchTerm),
                   !.Cursor = 0, !.RenderIndex = 0]

\* applySearch
zoxide_applySearch(m) ==
    LET searchTerm == ToLower(m.SearchBar) IN
    IF searchTerm = <<>>
    THEN [m EXCEPT !.Entries = m.AllEntries, !.Cursor = 0, !.RenderIndex = 0]
    ELSE LET results == FzfSearch(m.AllEntries, searchTerm) IN
         IF Len(results) = 0
         THEN [m EXCEPT !.Cursor = 0, !.RenderIndex = 0]
         ELSE [m EXCEPT !.Entries = results, !.Cursor = 0, !.RenderIndex = 0]

\* zoxide_cancelSearch leaving the filtered list displayed
zoxide_cancelSearch_keepFiltered(m) ==
    [m EXCEPT !.SearchBar = <<>>, !.SearchMode = FALSE]

\* handleKeypress, case "esc" in search mode
zoxide_cancelSearch(m) ==
    [m EXCEPT !.SearchBar = <<>>, !.Entries = m.AllEntries, !.SearchMode = FALSE]

\* zoxide_typeKey filtering on every key
zoxide_typeKey_live(m, key) ==
    zoxide_applySearch([m EXCEPT !.SearchBar = TextInputUpdate(m.SearchBar, key)])

\* handleKeypress, default case in search mode
zoxide_typeKey(m, key) ==
    [m EXCEPT !.SearchBar = TextInputUpdate(m.SearchBar, key)]

\* handleKeypress, case "up"
zoxide_moveUp(m) ==
    IF m.Cursor > 0
    THEN LET c == m.Cursor - 1 IN
         [m EXCEPT !.Cursor = c,
                   !.RenderIndex = IF c < m.RenderIndex THEN c ELSE m.RenderIndex]
    ELSE [m EXCEPT !.Cursor = Len(m.Entries) - 1,
                   !.RenderIndex = Max(0, Len(m.Entries) - m.Height + 4)]

\* zoxide_moveDown scrolling by the modal's height, not by the rows View draws
zoxide_moveDown_byHeight(m) ==
    IF m.Cursor < Len(m.Entries) - 1
    THEN LET c == m.Cursor + 1 IN
         [m EXCEPT !.Cursor = c,
                   !.RenderIndex = IF c >= m.RenderIndex + m.Height
                                   THEN m.RenderIndex + 1 ELSE m.RenderIndex]
    ELSE [m EXCEPT !.Cursor = 0, !.RenderIndex = 0]

\* handleKeypress, case "down"
zoxide_moveDown(m) ==
    IF m.Cursor < Len(m.Entries) - 1
    THEN LET c == m.Cursor + 1 IN
         [m EXCEPT !.Cursor = c,
                   !.RenderIndex = IF c >= m.RenderIndex + m.Height - 4
                                   THEN m.RenderIndex + 1 ELSE m.RenderIndex]
    ELSE [m EXCEPT !.Cursor = 0, !.RenderIndex = 0]

\* what one call of handleKeypress does: the modal after it, whether it called
\* Close, the selectedDir it returns, and whether indexing Entries panicked
Handled(m, close, selectedDir, panic) ==
    [m |-> m, close |-> close, selectedDir |-> selectedDir, panic |-> panic]

\* zoxide_confirm returning the first entry, wherever the cursor is
zoxide_confirm_first(m) ==
    IF Len(m.Entries) > 0 /\ m.Cursor < Len(m.Entries)
    THEN Handled(m, TRUE, m.Entries[1], FALSE)
    ELSE Handled(m, FALSE, NoSelection, FALSE)

\* handleKeypress, case "enter" in browse mode; Entries[Cursor] with a
\* negative Cursor is an index out of range
zoxide_confirm(m) ==
    IF Len(m.Entries) > 0 /\ m.Cursor < Len(m.Entries)
    THEN IF m.Cursor < 0
         THEN Handled(m, FALSE, NoSelection, TRUE)
         ELSE Handled(m, TRUE, m.Entries[m.Cursor + 1], FALSE)
    ELSE Handled(m, FALSE, NoSelection, FALSE)

zoxide_handleKeypress(m, key) ==
    IF m.SearchMode
    THEN CASE key = "enter" ->
                Handled([zoxide_applySearch(m) EXCEPT !.SearchMode = FALSE],
                        FALSE, NoSelection, FALSE)
           [] key = "esc" -> Handled(zoxide_cancelSearch(m), FALSE, NoSelection, FALSE)
           [] OTHER -> Handled(zoxide_typeKey(m, key), FALSE, NoSelection, FALSE)
    ELSE CASE key \in {"q", "esc"} -> Handled(m, TRUE, NoSelection, FALSE)
           [] key = "enter" -> zoxide_confirm(m)
           [] key = "up" -> Handled(zoxide_moveUp(m), FALSE, NoSelection, FALSE)
           [] key = "down" -> Handled(zoxide_moveDown(m), FALSE, NoSelection, FALSE)
           [] key = "/" -> Handled([m EXCEPT !.SearchMode = TRUE], FALSE, NoSelection, FALSE)
           [] OTHER -> Handled(m, FALSE, NoSelection, FALSE)

\* Update(msg) for a key message
zoxide_Update(key, op) ==
    /\ impl = "zoxide" /\ ~panicked
    /\ isOpen
    /\ LET r == zoxide_handleKeypress(Modal, key) IN
       /\ Modal' = r.m
       /\ isOpen' = (IF r.close THEN FALSE ELSE isOpen)
       /\ ret' = r.selectedDir
       /\ panicked' = r.panic
    /\ last' = Did(op, Modal.Entries, Modal.RenderIndex, Modal.SearchBar)
    /\ UNCHANGED <<impl, internalVars, raceVars, initialized, pending, mainVars>>

zoxide_MoveUp == ~Modal.SearchMode /\ zoxide_Update("up", "MoveUp")
zoxide_MoveDown == ~Modal.SearchMode /\ zoxide_Update("down", "MoveDown")
zoxide_BeginSearch == ~Modal.SearchMode /\ zoxide_Update("/", "BeginSearch")
zoxide_Confirm == ~Modal.SearchMode /\ zoxide_Update("enter", "Confirm")
zoxide_CloseKey ==
    ~Modal.SearchMode /\ \E key \in {"q", "esc"} : zoxide_Update(key, "Close")
zoxide_OtherKey ==
    ~Modal.SearchMode /\ 
    \E key \in BrowseKeys \ BoundKeys : zoxide_Update(key, "OtherKey")
zoxide_TypeChar ==
    Modal.SearchMode /\ \E key \in SearchKeys : zoxide_Update(key, "TypeChar")
zoxide_CommitSearch == Modal.SearchMode /\ zoxide_Update("enter", "CommitSearch")
zoxide_CancelSearch == Modal.SearchMode /\ zoxide_Update("esc", "CancelSearch")

\* Open(excludePath): the part that runs in the caller; the command it returns
\* is queued in pending
zoxide_Open ==
    /\ impl = "zoxide" /\ ~panicked
    /\ ~isOpen
    /\ pending < MaxPending
    /\ isOpen' = TRUE
    /\ initialized' = TRUE
    /\ Modal' = [(IF initialized THEN Modal ELSE zoxide_InitModal)
                    EXCEPT !.Cursor = 0, !.RenderIndex = 0,
                           !.SearchBar = <<>>, !.SearchMode = FALSE]
    /\ pending' = pending + 1
    /\ ret' = NoSelection
    /\ last' = Did("Open", Modal.Entries, Modal.RenderIndex, Modal.SearchBar)
    /\ UNCHANGED <<impl, internalVars, raceVars, panicked, mainVars>>

\* what the command returned by Open does with the answer of getZoxideHistory
zoxide_fetched(m, open, answer) ==
    IF answer.err \/ Len(answer.out) = 0
    THEN [m |-> m, open |-> FALSE]
    ELSE [m |-> [m EXCEPT !.Entries = answer.out, !.AllEntries = answer.out],
          open |-> open]

\* the command returned by Open runs, and getZoxideHistory gives answer
zoxide_FetchCallbackWith(answer) ==
    /\ impl = "zoxide" /\ ~panicked
    /\ pending > 0
    /\ pending' = pending - 1
    /\ LET r == zoxide_fetched(Modal, isOpen, answer) IN
       /\ Modal' = r.m
       /\ isOpen' = r.open
    /\ last' = Did("Fetch", Modal.Entries, Modal.RenderIndex, Modal.SearchBar)
    /\ UNCHANGED <<impl, internalVars, raceVars, initialized, ret, panicked, mainVars>>

\* the command returned by Open runs: getZoxideHistory answers
zoxide_FetchCallback ==
    \E answer \in SourceOutcomes : zoxide_FetchCallbackWith(answer)

\* Close()
zoxide_Close ==
    /\ impl = "zoxide" /\ ~panicked
    /\ isOpen' = FALSE
    /\ last' = Did("Close", Modal.Entries, Modal.RenderIndex, Modal.SearchBar)
    /\ UNCHANGED <<impl, internalVars, raceVars, initialized, Modal, pending, ret, panicked, mainVars>>

\* UpdateModalSize(width, height)
zoxide_resized(m, width, height) ==
    [m EXCEPT !.Width = Min(Max((width * 2) \div 3, 40), 100),
              !.Height = Min(Max((height * 2) \div 3, 10), 30)]

zoxide_UpdateModalSize ==
    /\ impl = "zoxide" /\ ~panicked
    /\ \E size \in TermSizes : Modal' = zoxide_resized(Modal, size[1], size[2])
    /\ last' = Did("Resize", Modal.Entries, Modal.RenderIndex, Modal.SearchBar)
    /\ UNCHANGED <<impl, internalVars, raceVars, isOpen, initialized, pending, ret, panicked, mainVars>>

\* the indices of Entries that View draws
zoxide_ViewRows(m) ==
    LET endIdx == Min(m.RenderIndex + m.Height - 4, Len(m.Entries))
    IN m.RenderIndex .. (endIdx - 1)

zoxide_Next ==
    \/ zoxide_Open
    \/ zoxide_FetchCallback
    \/ zoxide_Close
    \/ zoxide_UpdateModalSize
    \/ zoxide_MoveUp
    \/ zoxide_MoveDown
    \/ zoxide_BeginSearch
    \/ zoxide_TypeChar
    \/ zoxide_CommitSearch
    \/ zoxide_CancelSearch
    \/ zoxide_Confirm
    \/ zoxide_CloseKey
    \/ zoxide_OtherKey

----------------------------------------------------------------------------
(* package main *)

\* the directories Show and IsEmptyHistory are called with
Dirs == {"/x"}

\* the zoxideModal that Init builds
main_InitModal ==
    [open |-> FALSE, width |-> 60, height |-> 20, cursor |-> 0, search |-> <<>>,
     entries |-> <<>>, allItems |-> <<>>, render |-> 0, basePath |-> "",
     searching |-> FALSE]

\* IsEmptyHistory(cwd), given the answer the command gives if it is run: the
\* value returned and the cache afterwards
main_isEmptyHistory(flags, cwd, answer) ==
    IF cwd \in DOMAIN flags
    THEN [empty |-> flags[cwd], flags |-> flags]
    ELSE LET e == (answer.err \/ Len(answer.out) = 0)
         IN [empty |-> e, flags |-> (cwd :> e) @@ flags]

\* Show(baseDir), after IsEmptyHistory has returned false: the modal given the
\* answer of its own run of the command
main_shown(m, baseDir, answer) ==
    IF answer.err
    THEN m
    ELSE LET entries == SplitLines(answer.out) IN
         [m EXCEPT !.basePath = baseDir, !.entries = entries, !.allItems = entries,
                   !.cursor = 0, !.render = 0, !.open = TRUE, !.search = <<>>,
                   !.searching = FALSE]

\* main_filter comparing the entry as it is spelled
main_filter_caseSensitive(allItems, searchTerm) ==
    SelectSeq(allItems, LAMBDA entry : Contains(entry, searchTerm))

\* applySearch: the entries that contain the term, case-insensitively
main_filter(allItems, searchTerm) ==
    SelectSeq(allItems, LAMBDA entry : Contains(ToLower(entry), searchTerm))

\* main_applySearch narrowing allItems together with entries
main_applySearch_inPlace(m) ==
    LET searchTerm == ToLower(m.search) IN
    IF searchTerm = <<>>
    THEN [m EXCEPT !.entries = m.allItems]
    ELSE [m EXCEPT !.entries = main_filter(m.allItems, searchTerm),
                   !.allItems = main_filter(m.allItems, searchTerm),
                   !.cursor = 0, !.render = 0]

\* applySearch
main_applySearch(m) ==
    LET searchTerm == ToLower(m.search) IN
    IF searchTerm = <<>>
    THEN [m EXCEPT !.entries = m.allItems]
    ELSE [m EXCEPT !.entries = main_filter(m.allItems, searchTerm),
                   !.cursor = 0, !.render = 0]

\* HandleKeypress, case "esc" in search mode
main_cancelSearch(m) ==
    [m EXCEPT !.search = <<>>, !.entries = m.allItems, !.searching = FALSE]

\* HandleKeypress, default case in search mode
main_typeKey(m, key) ==
    [m EXCEPT !.search = TextInputUpdate(m.search, key)]

\* HandleKeypress, case "up"
main_moveUp(m) ==
    IF m.cursor > 0
    THEN LET c == m.cursor - 1 IN
         [m EXCEPT !.cursor = c,
                   !.render = IF c < m.render THEN c ELSE m.render]
    ELSE LET r == Len(m.entries) - m.height IN
         [m EXCEPT !.cursor = Len(m.entries) - 1,
                   !.render = IF r < 0 THEN 0 ELSE r]

\* HandleKeypress, case "down"
main_moveDown(m) ==
    IF m.cursor < Len(m.entries) - 1
    THEN LET c == m.cursor + 1 IN
         [m EXCEPT !.cursor = c,
                   !.render = IF c >= m.render + m.height
                               THEN m.render + 1 ELSE m.render]
    ELSE [m EXCEPT !.cursor = 0, !.render = 0]

\* HandleKeypress, case "enter" in browse mode
main_confirm(m) ==
    IF Len(m.entries) > 0 /\ m.cursor < Len(m.entries)
    THEN IF m.cursor < 0
         THEN Handled(m, FALSE, NoSelection, TRUE)
         ELSE Handled(m, TRUE, m.entries[m.cursor + 1], FALSE)
    ELSE Handled(m, FALSE, NoSelection, FALSE)

\* HandleKeypress on an open modal; close says the handler set open = false
main_handleKeypress(m, key) ==
    IF m.searching
    THEN CASE key = "enter" ->
                Handled([main_applySearch(m) EXCEPT !.searching = FALSE],
                        FALSE, NoSelection, FALSE)
           [] key = "esc" -> Handled(main_cancelSearch(m), FALSE, NoSelection, FALSE)
           [] OTHER -> Handled(main_typeKey(m, key), FALSE, NoSelection, FALSE)
    ELSE CASE key \in {"q", "esc"} -> Handled(m, TRUE, NoSelection, FALSE)
           [] key = "enter" -> main_confirm(m)
           [] key = "up" -> Handled(main_moveUp(m), FALSE, NoSelection, FALSE)
           [] key = "down" -> Handled(main_moveDown(m), FALSE, NoSelection, FALSE)
           [] key = "/" -> Handled([m EXCEPT !.searching = TRUE], FALSE, NoSelection, FALSE)
           [] OTHER -> Handled(m, FALSE, NoSelection, FALSE)

\* HandleKeypress(msg)
main_HandleKeypress(key, op) ==
    /\ impl = "main" /\ ~panicked
    /\ modal.open
    /\ LET r == main_handleKeypress(modal, key) IN
       /\ modal' = [r.m EXCEPT !.open = ~r.close]
       /\ ret' = r.selectedDir
       /\ panicked' = r.panic
    /\ last' = Did(op, modal.entries, modal.render, modal.search)
    /\ UNCHANGED <<impl, internalVars, raceVars, emptyFlag, zoxideVars>>

main_MoveUp == ~modal.searching /\ main_HandleKeypress("up", "MoveUp")
main_MoveDown == ~modal.searching /\ main_HandleKeypress("down", "MoveDown")
main_BeginSearch == ~modal.searching /\ main_HandleKeypress("/", "BeginSearch")
main_Confirm == ~modal.searching /\ main_HandleKeypress("enter", "Confirm")
main_CloseKey ==
    ~modal.searching /\ \E key \in {"q", "esc"} : main_HandleKeypress(key, "Close")
main_OtherKey ==
    ~modal.searching /\ 
    \E key \in BrowseKeys \ BoundKeys : main_HandleKeypress(key, "OtherKey")
main_TypeChar ==
    modal.searching /\ \E key \in SearchKeys : main_HandleKeypress(key, "TypeChar")
main_CommitSearch == modal.searching /\ main_HandleKeypress("enter", "CommitSearch")
main_CancelSearch == modal.searching /\ main_HandleKeypress("esc", "CancelSearch")

\* IsEmptyHistory(cwd), called by the host
main_IsEmptyHistory ==
    /\ impl = "main" /\ ~panicked
    /\ \E cwd \in Dirs, answer \in SourceOutcomes :
         emptyFlag' = main_isEmptyHistory(emptyFlag, cwd, answer).flags
    /\ last' = Did("IsEmptyHistory", modal.entries, modal.render, modal.search)
    /\ UNCHANGED <<impl, internalVars, raceVars, modal, ret, panicked, zoxideVars>>

\* Show(baseDir), the command answering first to IsEmptyHistory (if that runs
\* it) and second to Show itself
main_ShowWith(baseDir, first, second) ==
    /\ impl = "main" /\ ~panicked
    /\ LET checked == main_isEmptyHistory(emptyFlag, baseDir, first) IN
       /\ emptyFlag' = checked.flags
       /\ modal' = IF checked.empty THEN modal
                   ELSE main_shown(modal, baseDir, second)
    /\ last' = Did("Show", modal.entries, modal.render, modal.search)
    /\ UNCHANGED <<impl, internalVars, raceVars, ret, panicked, zoxideVars>>

\* Show(baseDir)
main_Show ==
    \E baseDir \in Dirs, first \in SourceOutcomes, second \in SourceOutcomes :
        main_ShowWith(baseDir, first, second)

\* Close()
main_Close ==
    /\ impl = "main" /\ ~panicked
    /\ modal' = [modal EXCEPT !.open = FALSE]
    /\ last' = Did("Close", modal.entries, modal.render, modal.search)
    /\ UNCHANGED <<impl, internalVars, raceVars, emptyFlag, ret, panicked, zoxideVars>>

\* UpdateModalSize(width, height)
main_resized(m, width, height) ==
    LET w == (width * 2) \div 3
        h == (height * 2) \div 3
    IN [m EXCEPT !.width = IF w > 100 THEN 100 ELSE IF w < 40 THEN 40 ELSE w,
                 !.height = IF h > 30 THEN 30 ELSE IF h < 10 THEN 10 ELSE h]

main_UpdateModalSize ==
    /\ impl = "main" /\ ~panicked
    /\ \E size \in TermSizes : modal' = main_resized(modal, size[1], size[2])
    /\ last' = Did("Resize", modal.entries, modal.render, modal.search)
    /\ UNCHANGED <<impl, internalVars, raceVars, emptyFlag, ret, panicked, zoxideVars>>

\* the indices of entries that RenderModal draws
main_RenderRows(m) ==
    LET endIdx == Min(m.render + m.height - 4, Len(m.entries))
    IN m.render .. (endIdx - 1)

main_Next ==
    \/ main_Show
    \/ main_IsEmptyHistory
    \/ main_Close
    \/ main_UpdateModalSize
    \/ main_MoveUp
    \/ main_MoveDown
    \/ main_BeginSearch
    \/ main_TypeChar
    \/ main_CommitSearch
    \/ main_CancelSearch
    \/ main_Confirm
    \/ main_CloseKey
    \/ main_OtherKey

----------------------------------------------------------------------------
(* package internal: the sidebar directories *)

\* a directory{location, name}
Directory(location, name) == [location |-> location, name |-> name]

\* the locations of the two dividers
PinnedSentinel == <<"P", "i", "n", "n", "e", "d", "+", "-", "*", "/", "=", "?">>
DisksSentinel == <<"D", "i", "s", "k", "s", "+", "-", "*", "/", "=", "?">>

\* the eight rows of wellKnownDirectories: the xdg location, and the name
\* icon + icon.Space + label (an icon is one rune)
wellKnownDirectories ==
    << Directory(<<"/", "h">>, <<"icon.Home", " ", "H", "o", "m", "e">>),
       Directory(<<"/", "h", "/", "D">>, <<"icon.Download", " ", "D", "o", "w", "n", "l", "o", "a", "d", "s">>),
       Directory(<<"/", "h", "/", "d">>, <<"icon.Documents", " ", "D", "o", "c", "u", "m", "e", "n", "t", "s">>),
       Directory(<<"/", "h", "/", "P">>, <<"icon.Pictures", " ", "P", "i", "c", "t", "u", "r", "e", "s">>),
       Directory(<<"/", "h", "/", "V">>, <<"icon.Videos", " ", "V", "i", "d", "e", "o", "s">>),
       Directory(<<"/", "h", "/", "M">>, <<"icon.Music", " ", "M", "u", "s", "i", "c">>),
       Directory(<<"/", "h", "/", "T">>, <<"icon.Templates", " ", "T", "e", "m", "p", "l", "a", "t", "e", "s">>),
       Directory(<<"/", "h", "/", "S">>, <<"icon.PublicShare", " ", "P", "u", "b", "l", "i", "c", "S", "h", "a", "r", "e">>) >>

\* the sets of locations os.Stat may find
StatOutcomes ==
    { {},
      {wellKnownDirectories[1].location, wellKnownDirectories[2].location},
      {wellKnownDirectories[i].location : i \in 1..Len(wellKnownDirectories)} }

\* getWellKnownDirectories, given the locations os.Stat finds
getWellKnownDirectories(found) ==
    SelectSeq(wellKnownDirectories, LAMBDA dir : dir.location \in found)

\* filepath.Base(path): the last element of path, trailing slashes removed;
\* "." for the empty path and "/" for a path of slashes only
RECURSIVE TrimSlashes(_)
TrimSlashes(path) ==
    IF path # <<>> /\ path[Len(path)] = "/"
    THEN TrimSlashes(SubSeq(path, 1, Len(path) - 1))
    ELSE path

Base(path) ==
    IF path = <<>> THEN <<".">>
    ELSE LET trimmed == TrimSlashes(path)
             slashes == {i \in 1..Len(trimmed) : trimmed[i] = "/"}
             lastSlash == CHOOSE i \in slashes : \A j \in slashes : j <= i
         IN IF trimmed = <<>> THEN <<"/">>
            ELSE IF slashes = {} THEN trimmed
            ELSE SubSeq(trimmed, lastSlash + 1, Len(trimmed))

\* the pinned file: unreadable, or JSON of one of three shapes: a list of path
\* strings ("paths"), a list of {location, name} objects ("records"), or
\* anything else ("other").  json.Unmarshal into []string succeeds on the
\* first shape only, into the slice of structs on the second only.
PinnedFile(readable, shape, paths, records) ==
    [readable |-> readable, shape |-> shape, paths |-> paths, records |-> records]

PinnedFiles ==
    { PinnedFile(FALSE, "other", <<>>, <<>>),
      PinnedFile(TRUE, "other", <<>>, <<>>),
      PinnedFile(TRUE, "paths", <<>>, <<>>),
      PinnedFile(TRUE, "paths", <<<<"/", "a", "/", "q">>, <<"/", "Q", "/", "q">>, <<"/", "a", "/">>>>, <<>>),
      PinnedFile(TRUE, "records", <<>>,
                 <<Directory(<<"/", "a", "/", "q">>, <<"q", "a">>), Directory(<<"/", "q">>, <<"Q", "a">>)>>),
      PinnedFile(TRUE, "records", <<>>,
                 <<Directory(DisksSentinel, <<"a">>), Directory(<<"/", "a">>, <<"a">>)>>) }

\* getPinnedDirectories
getPinnedDirectories(file) ==
    IF ~file.readable THEN <<>>
    ELSE IF file.shape = "paths"
    THEN [i \in 1..Len(file.paths) |->
             Directory(file.paths[i], Base(file.paths[i]))]
    ELSE IF file.shape = "records"
    THEN [i \in 1..Len(file.records) |->
             Directory(file.records[i].location, file.records[i].name)]
    ELSE <<>>

\* the mount points disk.Partitions may report
RootMount == <<"/">>
UsbMount == <<"/", "m", "/", "q">>
CardMount == <<"/", "m", "/", "Q", "a">>

\* disk.Partitions(true) returns a slice and an error; with an error the slice
\* is nil or holds the partitions read before the failure (gopsutil's Windows
\* implementation returns those)
PartitionOutcomes ==
    { [parts |-> <<>>, err |-> FALSE],
      [parts |-> <<RootMount, UsbMount, CardMount>>, err |-> FALSE],
      [parts |-> <<>>, err |-> TRUE],
      [parts |-> <<RootMount, UsbMount>>, err |-> TRUE] }

\* isExternalDiskPath(path): the mount point lies under the media directory
isExternalDiskPath(path) ==
    Len(path) > 3 /\ SubSeq(path, 1, 3) = <<"/", "m", "/">>

\* getExternalMediaFolders: the error is logged and the slice is used as it is
getExternalMediaFolders(partitioned) ==
    LET external == SelectSeq(partitioned.parts, isExternalDiskPath)
    IN [i \in 1..Len(external) |-> Directory(external[i], Base(external[i]))]

\* getDirectories
getDirectories(found, file, partitioned) ==
    getWellKnownDirectories(found)
    \o <<Directory(PinnedSentinel, <<>>)>>
    \o getPinnedDirectories(file)
    \o <<Directory(DisksSentinel, <<>>)>>
    \o getExternalMediaFolders(partitioned)

\* fuzzySearch(query, dirs): the names are searched, and every match is looked
\* up in dirMap, which holds for a name the last directory of that name
fuzzySearch(query, dirs) ==
    IF Len(dirs) > 0
    THEN LET haystack == [i \in 1..Len(dirs) |-> dirs[i].name]
             dirMap(name) ==
                 LET named == {i \in 1..Len(dirs) : dirs[i].name = name}
                 IN dirs[CHOOSE i \in named : \A j \in named : j <= i]
             matches == FzfSearch(haystack, query)
         IN [i \in 1..Len(matches) |-> dirMap(matches[i])]
    ELSE <<>>

\* the partition loop of getFilteredDirectories: currentGroup names the slice
\* the next directory is appended to
RECURSIVE partitionDirs(_, _, _)
partitionDirs(allDirs, currentGroup, groups) ==
    IF allDirs = <<>> THEN groups
    ELSE LET dir == Head(allDirs) IN
         IF dir.location = PinnedSentinel
         THEN partitionDirs(Tail(allDirs), "pinnedDirs", groups)
         ELSE IF dir.location = DisksSentinel
         THEN partitionDirs(Tail(allDirs), "diskDirs", groups)
         ELSE partitionDirs(Tail(allDirs), currentGroup,
                            [groups EXCEPT ![currentGroup] = Append(@, dir)])

\* the three groups of a list of sidebar directories
grouped(allDirs) ==
    partitionDirs(allDirs, "noneDirs",
                  [noneDirs |-> <<>>, pinnedDirs |-> <<>>, diskDirs |-> <<>>])

\* getFilteredDirectories emitting a divider only before a group with matches
getFilteredDirectories_dropEmpty(query) ==
    LET groups == grouped(getDirectories(stat, pinnedFile, partitions))
        filteredPinned == fuzzySearch(query, groups.pinnedDirs)
        filteredDisks == fuzzySearch(query, groups.diskDirs)
    IN fuzzySearch(query, groups.noneDirs)
       \o (IF filteredPinned = <<>> THEN <<>> ELSE <<Directory(PinnedSentinel, <<>>)>>)
       \o filteredPinned
       \o (IF filteredDisks = <<>> THEN <<>> ELSE <<Directory(DisksSentinel, <<>>)>>)
       \o filteredDisks

\* getFilteredDirectories(query)
getFilteredDirectories(query) ==
    LET groups == grouped(getDirectories(stat, pinnedFile, partitions)) IN
    fuzzySearch(query, groups.noneDirs)
    \o <<Directory(PinnedSentinel, <<>>)>>
    \o fuzzySearch(query, groups.pinnedDirs)
    \o <<Directory(DisksSentinel, <<>>)>>
    \o fuzzySearch(query, groups.diskDirs)

\* the queries typed into the sidebar's search bar
Queries == { <<>>, <<"q">>, <<"Q">>, <<"o">>, <<"z">> }

\* the sidebar before its list is loaded
NoSidebar == [directories |-> <<>>, cursor |-> 0, query |-> <<>>]

\* a divider row of the sidebar
IsBoundary(dir) == dir.location \in {PinnedSentinel, DisksSentinel}

\* NavigableList.Replace: the new list, the cursor back at the top
NavigableList_Replace(s, newDisplayed) ==
    [s EXCEPT !.directories = newDisplayed, !.cursor = 0]

\* one step up or down the list, wrapping at its ends
NavigableList_stepUp(s, cursor) ==
    IF cursor > 0 THEN cursor - 1 ELSE Len(s.directories) - 1
NavigableList_stepDown(s, cursor) ==
    IF cursor < Len(s.directories) - 1 THEN cursor + 1 ELSE 0

\* NavigableList.MoveUp and MoveDown: a step or wrap that would land on a
\* boundary continues one further step in the same direction
NavigableList_MoveUp(s) ==
    LET c == NavigableList_stepUp(s, s.cursor) IN
    [s EXCEPT !.cursor = IF IsBoundary(s.directories[c + 1])
                         THEN NavigableList_stepUp(s, c) ELSE c]
NavigableList_MoveDown(s) ==
    LET c == NavigableList_stepDown(s, s.cursor) IN
    [s EXCEPT !.cursor = IF IsBoundary(s.directories[c + 1])
                         THEN NavigableList_stepDown(s, c) ELSE c]

\* the sidebar shows getDirectories()
internal_Load ==
    /\ impl = "internal"
    /\ sidebarModel' =
         [NavigableList_Replace(sidebarModel,
                                getDirectories(stat, pinnedFile, partitions))
            EXCEPT !.query = <<>>]
    /\ last' = Did("Load", sidebarModel.directories, 0, sidebarModel.query)
    /\ UNCHANGED <<impl, stat, pinnedFile, partitions, raceVars, zoxideVars,
                   mainVars, ret, panicked>>

\* the sidebar shows getFilteredDirectories(query)
internal_Search ==
    /\ impl = "internal"
    /\ \E query \in Queries :
         sidebarModel' =
             [NavigableList_Replace(sidebarModel, getFilteredDirectories(query))
                EXCEPT !.query = query]
    /\ last' = Did("Search", sidebarModel.directories, 0, sidebarModel.query)
    /\ UNCHANGED <<impl, stat, pinnedFile, partitions, raceVars, zoxideVars,
                   mainVars, ret, panicked>>

internal_MoveUp ==
    /\ impl = "internal"
    /\ Len(sidebarModel.directories) > 0
    /\ sidebarModel' = NavigableList_MoveUp(sidebarModel)
    /\ last' = Did("MoveUp", sidebarModel.directories, 0, sidebarModel.query)
    /\ UNCHANGED <<impl, stat, pinnedFile, partitions, raceVars, zoxideVars,
                   mainVars, ret, panicked>>

internal_MoveDown ==
    /\ impl = "internal"
    /\ Len(sidebarModel.directories) > 0
    /\ sidebarModel' = NavigableList_MoveDown(sidebarModel)
    /\ last' = Did("MoveDown", sidebarModel.directories, 0, sidebarModel.query)
    /\ UNCHANGED <<impl, stat, pinnedFile, partitions, raceVars, zoxideVars,
                   mainVars, ret, panicked>>

----------------------------------------------------------------------------
(* The state of a package before its first call *)

\* the UI goroutine between two calls
ui_Idle == [pc |-> "idle", key |-> "", seen |-> zoxide_InitModal]

\* one access to z.isOpen: the goroutine, read or write, and whether that
\* goroutine held mu
Access(by, kind, held) == [by |-> by, kind |-> kind, held |-> held]

\* nothing accessed yet
observed_None == [isOpen |-> Access("none", "none", TRUE), overlap |-> FALSE]

internal_Unused ==
    /\ stat = {}
    /\ pinnedFile = PinnedFile(FALSE, "other", <<>>, <<>>)
    /\ partitions = [parts |-> <<>>, err |-> FALSE]
    /\ sidebarModel = NoSidebar
\* no Open yet: no command in flight, of the latest Open (current) or of an
\* Open before it (earlier), and nothing fetched (done, out) for the latest
sessions_None == [current |-> FALSE, earlier |-> 0, done |-> FALSE, out |-> <<>>]

race_Unused ==
    /\ mu = "free"
    /\ ui = ui_Idle
    /\ observed = observed_None
    /\ sessions = sessions_None
zoxide_Unused ==
    /\ isOpen = FALSE
    /\ initialized = TRUE
    /\ Modal = zoxide_InitModal
    /\ pending = 0
main_Unused ==
    /\ emptyFlag = [d \in {} |-> FALSE]
    /\ modal = main_InitModal

----------------------------------------------------------------------------
(* The programs from their construction *)

Impls == {"zoxide", "main"}

NoFlags == [d \in {} |-> FALSE]

Init ==
    /\ impl \in Impls
    /\ isOpen = FALSE
    /\ initialized = TRUE
    /\ Modal = zoxide_InitModal
    /\ pending = 0
    /\ emptyFlag = NoFlags
    /\ modal = main_InitModal
    /\ ret = NoSelection
    /\ panicked = FALSE
    /\ last = Did("Init", <<>>, 0, <<>>)
    /\ internal_Unused
    /\ race_Unused

Next == zoxide_Next \/ main_Next

Spec == Init /\ [][Next]_vars

----------------------------------------------------------------------------
(* One session: the modal just opened on a loaded list, then keys only *)

\* the sizes a modal can have when it opens: as built, or resized before
zoxide_Sized ==
    {zoxide_InitModal} \cup
    {zoxide_resized(zoxide_InitModal, size[1], size[2]) : size \in TermSizes}

main_Sized ==
    {main_InitModal} \cup
    {main_resized(main_InitModal, size[1], size[2]) : size \in TermSizes}

\* package zoxide after Open and its command, the history not empty
zoxide_Opened ==
    {zoxide_fetched(m, TRUE, answer).m :
        m \in zoxide_Sized,
        answer \in {a \in SourceOutcomes : ~a.err /\ Len(a.out) > 0}}

\* package main after a Show that opened the modal
main_Opened ==
    {main_shown(m, d, answer) :
        m \in main_Sized, d \in Dirs,
        answer \in {a \in SourceOutcomes : ~a.err}}

InitNav ==
    /\ impl \in Impls
    /\ internal_Unused
    /\ race_Unused
    /\ initialized = TRUE
    /\ pending = 0
    /\ ret = NoSelection
    /\ panicked = FALSE
    /\ \/ /\ impl = "zoxide"
          /\ isOpen = TRUE
          /\ Modal \in zoxide_Opened
          /\ emptyFlag = NoFlags
          /\ modal = main_InitModal
          /\ last = Did("Fetch", <<>>, 0, <<>>)
       \/ /\ impl = "main"
          /\ isOpen = FALSE
          /\ Modal = zoxide_InitModal
          /\ modal \in main_Opened
          /\ emptyFlag = [d \in {modal.basePath} |-> FALSE]
          /\ last = Did("Show", <<>>, 0, <<>>)

NextNav ==
    \/ zoxide_MoveUp
    \/ zoxide_MoveDown
    \/ zoxide_BeginSearch
    \/ zoxide_TypeChar
    \/ zoxide_CommitSearch
    \/ zoxide_CancelSearch
    \/ main_MoveUp
    \/ main_MoveDown
    \/ main_BeginSearch
    \/ main_TypeChar
    \/ main_CommitSearch
    \/ main_CancelSearch

SpecNav == InitNav /\ [][NextNav]_vars

----------------------------------------------------------------------------
(* package zoxide, one memory access at a time: the UI goroutine calls Open, *)
(* Close, IsOpen, Update and View; the command Open returned runs in a       *)
(* goroutine of its own                                                     *)

\* the keys pressed in this specification
RaceKeys == {"enter", "esc", "up", "down", "/", "Q"}

\* what the steps below leave alone
RaceFrame == UNCHANGED <<impl, initialized, internalVars, mainVars, sessions>>
\* the same for Open and for the command, which start and end a fetch
FetchFrame == UNCHANGED <<impl, initialized, internalVars, mainVars>>

\* the UI goroutine at pc, the rest of ui as it is
At(pc) == [ui EXCEPT !.pc = pc]

\* a call of Open, Close or IsOpen by the host
Host_call ==
    /\ impl = "zoxide" /\ ~panicked
    /\ ui.pc = "idle"
    /\ \E f \in {"Open", "Close", "IsOpen"} :
         /\ f = "Open" => pending < MaxInFlight
         /\ ui' = At(f \o ".Lock")
    /\ last' = Did("Call", Modal.Entries, Modal.RenderIndex, Modal.SearchBar)
    /\ UNCHANGED <<isOpen, Modal, pending, ret, panicked, mu, observed>>
    /\ RaceFrame

\* z.mu.Lock() at the head of Open, Close and IsOpen
Mutex_Lock ==
    /\ impl = "zoxide" /\ ~panicked
    /\ ui.pc \in {"Open.Lock", "Close.Lock", "IsOpen.Lock"}
    /\ mu = "free"
    /\ mu' = "ui"
    /\ ui' = At(CASE ui.pc = "Open.Lock" -> "Open"
                  [] ui.pc = "Close.Lock" -> "Close"
                  [] ui.pc = "IsOpen.Lock" -> "IsOpen")
    /\ last' = Did("Lock", Modal.Entries, Modal.RenderIndex, Modal.SearchBar)
    /\ UNCHANGED <<isOpen, Modal, pending, ret, panicked, observed>>
    /\ RaceFrame

\* the deferred z.mu.Unlock()
Mutex_Unlock ==
    /\ impl = "zoxide" /\ ~panicked
    /\ ui.pc = "Unlock"
    /\ mu' = "free"
    /\ ui' = At("idle")
    /\ last' = Did("Unlock", Modal.Entries, Modal.RenderIndex, Modal.SearchBar)
    /\ UNCHANGED <<isOpen, Modal, pending, ret, panicked, observed>>
    /\ RaceFrame

\* Open between Lock and Unlock: it reads isOpen and, if the modal is closed,
\* writes it, resets the modal and returns the command
Open_body ==
    /\ impl = "zoxide" /\ ~panicked
    /\ ui.pc = "Open"
    /\ IF isOpen
       THEN /\ observed' = [observed EXCEPT !.isOpen = Access("ui", "read", mu = "ui")]
            /\ UNCHANGED <<isOpen, Modal, pending, sessions>>
       ELSE /\ observed' = [observed EXCEPT !.isOpen = Access("ui", "write", mu = "ui")]
            /\ isOpen' = TRUE
            /\ Modal' = [Modal EXCEPT !.Cursor = 0, !.RenderIndex = 0,
                                      !.SearchBar = <<>>, !.SearchMode = FALSE]
            /\ pending' = pending + 1
            /\ sessions' = [current |-> TRUE,
                            earlier |-> sessions.earlier
                                          + (IF sessions.current THEN 1 ELSE 0),
                            done |-> FALSE, out |-> <<>>]
    /\ ui' = At("Unlock")
    /\ ret' = NoSelection
    /\ last' = Did("Open", Modal.Entries, Modal.RenderIndex, Modal.SearchBar)
    /\ UNCHANGED <<panicked, mu>>
    /\ FetchFrame

\* Close between Lock and Unlock
Close_body ==
    /\ impl = "zoxide" /\ ~panicked
    /\ ui.pc = "Close"
    /\ isOpen' = FALSE
    /\ observed' = [observed EXCEPT !.isOpen = Access("ui", "write", mu = "ui")]
    /\ ui' = At("Unlock")
    /\ last' = Did("Close", Modal.Entries, Modal.RenderIndex, Modal.SearchBar)
    /\ UNCHANGED <<Modal, pending, ret, panicked, mu>>
    /\ RaceFrame

\* IsOpen between Lock and Unlock
IsOpen_body ==
    /\ impl = "zoxide" /\ ~panicked
    /\ ui.pc = "IsOpen"
    /\ observed' = [observed EXCEPT !.isOpen = Access("ui", "read", mu = "ui")]
    /\ ui' = At("Unlock")
    /\ last' = Did("IsOpen", Modal.Entries, Modal.RenderIndex, Modal.SearchBar)
    /\ UNCHANGED <<isOpen, Modal, pending, ret, panicked, mu>>
    /\ RaceFrame

\* Update(msg) for a key message: `if !z.isOpen`, then on to handleKeypress
Update_isOpen ==
    /\ impl = "zoxide" /\ ~panicked
    /\ ui.pc = "idle"
    /\ observed' = [observed EXCEPT !.isOpen = Access("ui", "read", mu = "ui")]
    /\ \E key \in RaceKeys :
         ui' = IF isOpen THEN [ui EXCEPT !.pc = "handleKeypress", !.key = key]
               ELSE ui
    /\ last' = Did("Update", Modal.Entries, Modal.RenderIndex, Modal.SearchBar)
    /\ UNCHANGED <<isOpen, Modal, pending, ret, panicked, mu>>
    /\ RaceFrame

\* View(): `if !z.isOpen`, then the rows are drawn
View_isOpen ==
    /\ impl = "zoxide" /\ ~panicked
    /\ ui.pc = "idle"
    /\ observed' = [observed EXCEPT !.isOpen = Access("ui", "read", mu = "ui")]
    /\ last' = Did("View", Modal.Entries, Modal.RenderIndex, Modal.SearchBar)
    /\ UNCHANGED <<isOpen, Modal, pending, ret, panicked, mu, ui>>
    /\ RaceFrame

\* handleKeypress reads the modal: the mode, len(Entries), Cursor
handleKeypress_read ==
    /\ impl = "zoxide" /\ ~panicked
    /\ ui.pc = "handleKeypress"
    /\ ui' = [ui EXCEPT !.pc = "handling", !.seen = Modal]
    /\ last' = Did("Read", Modal.Entries, Modal.RenderIndex, Modal.SearchBar)
    /\ UNCHANGED <<isOpen, Modal, pending, ret, panicked, mu, observed>>
    /\ RaceFrame

\* case "enter" in browse mode when the guard was evaluated on seen and
\* Entries[Cursor] is read from the modal as it is now
confirm_after(seen, m) ==
    IF Len(seen.Entries) > 0 /\ seen.Cursor < Len(seen.Entries)
    THEN IF m.Cursor < 0 \/ m.Cursor >= Len(m.Entries)
         THEN Handled(m, FALSE, NoSelection, TRUE)
         ELSE Handled(m, TRUE, m.Entries[m.Cursor + 1], FALSE)
    ELSE Handled(m, FALSE, NoSelection, FALSE)

\* handleKeypress acts on what it read, and returns; z.Close() is called next
\* when the key closes the modal
handleKeypress_write ==
    /\ impl = "zoxide" /\ ~panicked
    /\ ui.pc = "handling"
    /\ LET r == IF ~Modal.SearchMode /\ ui.key = "enter"
                THEN confirm_after(ui.seen, Modal)
                ELSE zoxide_handleKeypress(Modal, ui.key)
       IN /\ Modal' = r.m
          /\ ret' = r.selectedDir
          /\ panicked' = r.panic
          /\ ui' = [ui_Idle EXCEPT !.pc = IF r.close THEN "Close.Lock" ELSE "idle"]
    /\ last' = Did("Key", Modal.Entries, Modal.RenderIndex, Modal.SearchBar)
    /\ UNCHANGED <<isOpen, pending, mu, observed>>
    /\ RaceFrame

\* the handler of key reads or writes Entries, AllEntries, Cursor or
\* RenderIndex: the cursor keys and enter while browsing, enter and esc while
\* searching
TouchesList(seen, key) ==
    IF seen.SearchMode THEN key \in {"enter", "esc"}
    ELSE key \in {"enter", "up", "down"}

\* the command returned by Open, in its goroutine: getZoxideHistory answers,
\* and the closure writes isOpen, or Entries and AllEntries, without mu; own
\* says the command is the one the latest Open returned
Cmd_of(own, answer) ==
    /\ impl = "zoxide" /\ ~panicked
    /\ pending > 0
    /\ IF own THEN sessions.current ELSE sessions.earlier > 0
    /\ pending' = pending - 1
    /\ sessions' = IF own
                   THEN [sessions EXCEPT !.current = FALSE, !.done = TRUE,
                                         !.out = IF answer.err THEN <<>> ELSE answer.out]
                   ELSE [sessions EXCEPT !.earlier = @ - 1]
    /\ LET r == zoxide_fetched(Modal, isOpen, answer) IN
       /\ Modal' = r.m
       /\ isOpen' = r.open
       /\ observed' =
            IF answer.err \/ Len(answer.out) = 0
            THEN [observed EXCEPT !.isOpen = Access("cmd", "write", mu = "cmd")]
            ELSE [observed EXCEPT !.overlap =
                       @ \/ (ui.pc = "handling" /\ TouchesList(ui.seen, ui.key))]
    /\ last' = Did("Fetch", Modal.Entries, Modal.RenderIndex, Modal.SearchBar)
    /\ UNCHANGED <<ret, panicked, mu, ui>>
    /\ FetchFrame

Cmd_run ==
    \E own \in BOOLEAN, answer \in SourceOutcomes : Cmd_of(own, answer)

InitRace ==
    /\ impl = "zoxide"
    /\ zoxide_Unused
    /\ main_Unused
    /\ internal_Unused
    /\ race_Unused
    /\ ret = NoSelection
    /\ panicked = FALSE
    /\ last = Did("Init", <<>>, 0, <<>>)

NextRace ==
    \/ Host_call
    \/ Mutex_Lock
    \/ Mutex_Unlock
    \/ Open_body
    \/ Close_body
    \/ IsOpen_body
    \/ Update_isOpen
    \/ View_isOpen
    \/ handleKeypress_read
    \/ handleKeypress_write
    \/ Cmd_run

SpecRace == InitRace /\ [][NextRace]_vars

----------------------------------------------------------------------------
(* The sidebar: its sources as found, then loads, searches and cursor keys *)

InitSidebar ==
    /\ impl = "internal"
    /\ zoxide_Unused
    /\ main_Unused
    /\ race_Unused
    /\ ret = NoSelection
    /\ panicked = FALSE
    /\ stat \in StatOutcomes
    /\ pinnedFile \in PinnedFiles
    /\ partitions \in PartitionOutcomes
    /\ sidebarModel = NoSidebar
    /\ last = Did("Init", <<>>, 0, <<>>)

NextSidebar ==
    \/ internal_Load
    \/ internal_Search
    \/ internal_MoveUp
    \/ internal_MoveDown

SpecSidebar == InitSidebar /\ [][NextSidebar]_vars

----------------------------------------------------------------------------
(* The claims *)

\* a cursor inside a list of n entries; 0 when the list is empty
CursorInList(cursor, n) ==
    IF n = 0 THEN cursor = 0 ELSE 0 <= cursor /\ cursor < n

\* offset and cursor of a list of n entries agree with a window of rows rows
InWindow(cursor, offset, rows, n) ==
    /\ 0 <= offset /\ offset <= Max(0, n - rows)
    /\ offset <= cursor /\ cursor <= offset + rows - 1

\* C1: in both modals the cursor is always inside the displayed list (0 when
\* the list is empty), and so Confirm never indexes the list out of bounds.
C1_CursorInBounds ==
    /\ ~panicked
    /\ impl = "zoxide" => CursorInList(Modal.Cursor, Len(Modal.Entries))
    /\ impl = "main" => CursorInList(modal.cursor, Len(modal.entries))

\* C2: in the package zoxide modal, with a list that is not empty and a fixed
\* Height, MoveUp, MoveDown, CommitSearch and CancelSearch keep the cursor on
\* a row that View draws: RenderIndex <= Cursor <= RenderIndex + (Height-4) - 1
\* and 0 <= RenderIndex <= max(0, len(Entries) - (Height-4)).
C2_CursorInViewWindow ==
    (impl = "zoxide" /\ Modal.Entries # <<>>) =>
        /\ InWindow(Modal.Cursor, Modal.RenderIndex, zoxide_VisibleRows(Modal),
                    Len(Modal.Entries))
        /\ Modal.Cursor \in zoxide_ViewRows(Modal)

\* C2: MoveDown has scrolled the window and the cursor is on its last row
C2_Witness ==
    /\ impl = "zoxide"
    /\ last.op = "MoveDown"
    /\ Modal.RenderIndex = last.r + 1
    /\ Modal.Cursor = Modal.RenderIndex + zoxide_VisibleRows(Modal) - 1
    /\ Modal.Cursor \in zoxide_ViewRows(Modal)

\* C3: in the package main modal, with a list that is not empty and a fixed
\* height, MoveUp, MoveDown, CommitSearch and CancelSearch keep the cursor on
\* a row that RenderModal draws.
C3_CursorOnScreen ==
    (impl = "main" /\ modal.entries # <<>>) => modal.cursor \in main_RenderRows(modal)

\* C4: UpdateModalSize, from a state in which cursor and offset agree with the
\* window, leaves the cursor alone and re-clamps the offset, so that they agree
\* with the window of the new height.
C4_ResizeReclamps ==
    [][ /\ (/\ zoxide_UpdateModalSize
            /\ InWindow(Modal.Cursor, Modal.RenderIndex, zoxide_VisibleRows(Modal),
                        Len(Modal.Entries)))
           => /\ Modal'.Cursor = Modal.Cursor
              /\ InWindow(Modal'.Cursor, Modal'.RenderIndex,
                          zoxide_VisibleRows(Modal'), Len(Modal'.Entries))
        /\ (/\ main_UpdateModalSize
            /\ InWindow(modal.cursor, modal.render, modal.height - 4,
                        Len(modal.entries)))
           => /\ modal'.cursor = modal.cursor
              /\ InWindow(modal'.cursor, modal'.render, modal'.height - 4,
                          Len(modal'.entries)) ]_vars

\* C5: on a list of N >= 1 entries MoveUp at cursor 0 sets the cursor to N-1
\* and the offset to max(0, N - rows drawn); MoveDown at cursor N-1 sets both
\* to 0; with N = 1 both leave the cursor at 0.
C5_Wraparound ==
    [][ /\ (zoxide_MoveUp /\ Modal.Cursor = 0 /\ Len(Modal.Entries) >= 1)
           => /\ Modal'.Cursor = Len(Modal.Entries) - 1
              /\ Modal'.RenderIndex =
                    Max(0, Len(Modal.Entries) - zoxide_VisibleRows(Modal))
        /\ (/\ zoxide_MoveDown /\ Len(Modal.Entries) >= 1
            /\ Modal.Cursor = Len(Modal.Entries) - 1)
           => (Modal'.Cursor = 0 /\ Modal'.RenderIndex = 0)
        /\ (main_MoveUp /\ modal.cursor = 0 /\ Len(modal.entries) >= 1)
           => /\ modal'.cursor = Len(modal.entries) - 1
              /\ modal'.render = Max(0, Len(modal.entries) - (modal.height - 4))
        /\ (/\ main_MoveDown /\ Len(modal.entries) >= 1
            /\ modal.cursor = Len(modal.entries) - 1)
           => (modal'.cursor = 0 /\ modal'.render = 0) ]_vars


Range(seq) == {seq[i] : i \in DOMAIN seq}

\* the entries of all that the term selects: package zoxide matches the
\* term's runes in order, package main matches it as a substring, both
\* without regard to case
FuzzyHits(all, term) ==
    {e \in Range(all) : FuzzyMatch(ToLower(term), ToLower(e))}
SubstringHits(all, term) ==
    {e \in Range(all) : Contains(ToLower(e), ToLower(term))}

\* displayed is the filter of all: all itself for the empty term, and
\* otherwise exactly the selected entries, each once
IsFilterOf(displayed, all, term, hits) ==
    IF term = <<>>
    THEN displayed = all
    ELSE Range(displayed) = hits /\ Len(displayed) = Cardinality(hits)

\* C6: CancelSearch, whatever was typed and whatever filter was committed
\* before, leaves the modal browsing, the displayed list equal to the
\* unchanged list of all entries, and the search text empty.
C6_SearchRevert ==
    [][ /\ zoxide_CancelSearch
           => /\ ~Modal'.SearchMode
              /\ Modal'.Entries = Modal.AllEntries
              /\ Modal'.AllEntries = Modal.AllEntries
              /\ Modal'.SearchBar = <<>>
        /\ main_CancelSearch
           => /\ ~modal'.searching
              /\ modal'.entries = modal.allItems
              /\ modal'.allItems = modal.allItems
              /\ modal'.search = <<>> ]_vars

\* C6: a search cancelled with text in the search bar and a narrowed list
\* displayed; the whole list is displayed again
C6_Witness ==
    /\ last.op = "CancelSearch" /\ last.q > 0
    /\ \/ /\ impl = "zoxide" /\ ~Modal.SearchMode /\ Modal.SearchBar = <<>>
          /\ last.n < Len(Modal.AllEntries)
          /\ Modal.Entries = Modal.AllEntries
       \/ /\ impl = "main" /\ ~modal.searching /\ modal.search = <<>>
          /\ last.n < Len(modal.allItems)
          /\ modal.entries = modal.allItems

\* C7 as claimed: CommitSearch with text q leaves displayed equal to the
\* filter of all entries by q (all entries for the empty q), and MoveUp and
\* MoveDown keep it.
C7_CommitIsFilter ==
    [][ /\ zoxide_CommitSearch
           => IsFilterOf(Modal'.Entries, Modal.AllEntries, Modal.SearchBar,
                         FuzzyHits(Modal.AllEntries, Modal.SearchBar))
        /\ main_CommitSearch
           => IsFilterOf(modal'.entries, modal.allItems, modal.search,
                         SubstringHits(modal.allItems, modal.search))
        /\ (zoxide_MoveUp \/ zoxide_MoveDown) => Modal'.Entries = Modal.Entries
        /\ (main_MoveUp \/ main_MoveDown) => modal'.entries = modal.entries ]_vars

\* C7 amended: as claimed, except that in package zoxide a text that selects
\* no entry leaves displayed as it was.
C7_StickyCommit ==
    [][ /\ zoxide_CommitSearch
           => IF /\ Modal.SearchBar # <<>>
                 /\ FuzzyHits(Modal.AllEntries, Modal.SearchBar) = {}
              THEN Modal'.Entries = Modal.Entries
              ELSE IsFilterOf(Modal'.Entries, Modal.AllEntries, Modal.SearchBar,
                              FuzzyHits(Modal.AllEntries, Modal.SearchBar))
        /\ main_CommitSearch
           => IsFilterOf(modal'.entries, modal.allItems, modal.search,
                         SubstringHits(modal.allItems, modal.search))
        /\ (zoxide_MoveUp \/ zoxide_MoveDown) => Modal'.Entries = Modal.Entries
        /\ (main_MoveUp \/ main_MoveDown) => modal'.entries = modal.entries ]_vars

\* C7: a committed filter that narrowed the list is still displayed after the
\* cursor has moved
C7_Witness ==
    /\ last.op \in {"MoveUp", "MoveDown"}
    /\ \/ /\ impl = "zoxide" /\ ~Modal.SearchMode /\ Modal.SearchBar # <<>>
          /\ Modal.Cursor > 0
          /\ Len(Modal.Entries) < Len(Modal.AllEntries)
          /\ Range(Modal.Entries) = FuzzyHits(Modal.AllEntries, Modal.SearchBar)
       \/ /\ impl = "main" /\ ~modal.searching /\ modal.search # <<>>
          /\ modal.cursor > 0
          /\ Len(modal.entries) < Len(modal.allItems)
          /\ Range(modal.entries) = SubstringHits(modal.allItems, modal.search)

\* C8 as claimed: in both modals a committed text that is not empty and
\* selects no entry leaves the displayed list empty.
C8_NoMatchDisplaysEmpty ==
    [][ /\ (/\ zoxide_CommitSearch /\ Modal.SearchBar # <<>>
            /\ FuzzyHits(Modal.AllEntries, Modal.SearchBar) = {})
           => Modal'.Entries = <<>>
        /\ (/\ main_CommitSearch /\ modal.search # <<>>
            /\ SubstringHits(modal.allItems, modal.search) = {})
           => modal'.entries = <<>> ]_vars

\* C8 amended: such a commit is no error in either modal (it stays open and
\* browsing, nothing panics); package main then displays the empty list, and
\* package zoxide keeps the list it displayed and moves the cursor to the top.
C8_NoMatchIsNoError ==
    [][ /\ (/\ zoxide_CommitSearch /\ Modal.SearchBar # <<>>
            /\ FuzzyHits(Modal.AllEntries, Modal.SearchBar) = {})
           => /\ Modal'.Entries = Modal.Entries
              /\ Modal'.Cursor = 0 /\ Modal'.RenderIndex = 0
              /\ isOpen' /\ ~Modal'.SearchMode /\ ~panicked'
        /\ (/\ main_CommitSearch /\ modal.search # <<>>
            /\ SubstringHits(modal.allItems, modal.search) = {})
           => /\ modal'.entries = <<>>
              /\ modal'.cursor = 0 /\ modal'.render = 0
              /\ modal'.open /\ ~modal'.searching /\ ~panicked' ]_vars

\* C8: a text that selects nothing has just been committed on a loaded list
C8_Witness ==
    /\ last.op = "CommitSearch" /\ last.q > 0
    /\ \/ /\ impl = "zoxide" /\ isOpen /\ Modal.AllEntries # <<>>
          /\ FuzzyHits(Modal.AllEntries, Modal.SearchBar) = {}
          /\ Modal.Entries # <<>>
       \/ /\ impl = "main" /\ modal.open /\ modal.allItems # <<>>
          /\ SubstringHits(modal.allItems, modal.search) = {}
          /\ modal.entries = <<>>

\* C9 as claimed: after every key typed in search mode the displayed list is
\* the filter of all entries by the text now in the search bar.
C9_LiveFiltering ==
    [][ /\ zoxide_TypeChar
           => IsFilterOf(Modal'.Entries, Modal'.AllEntries, Modal'.SearchBar,
                         FuzzyHits(Modal'.AllEntries, Modal'.SearchBar))
        /\ main_TypeChar
           => IsFilterOf(modal'.entries, modal'.allItems, modal'.search,
                         SubstringHits(modal'.allItems, modal'.search)) ]_vars

\* C9 amended: a key typed in search mode changes the search text only; the
\* displayed list, the cursor and the offset stay as they are and the modal
\* stays in search mode (the filter is applied by CommitSearch).
C9_TypingKeepsDisplayed ==
    [][ /\ zoxide_TypeChar
           => /\ Modal'.Entries = Modal.Entries
              /\ Modal'.Cursor = Modal.Cursor
              /\ Modal'.RenderIndex = Modal.RenderIndex
              /\ Modal'.SearchMode
        /\ main_TypeChar
           => /\ modal'.entries = modal.entries
              /\ modal'.cursor = modal.cursor
              /\ modal'.render = modal.render
              /\ modal'.searching ]_vars

\* C9: text has been typed and the displayed list is not its filter
C9_Witness ==
    /\ last.op = "TypeChar" /\ last.q = 0
    /\ \/ /\ impl = "zoxide" /\ Modal.SearchMode /\ Modal.SearchBar # <<>>
          /\ Modal.Entries # <<>>
          /\ Range(Modal.Entries) # FuzzyHits(Modal.AllEntries, Modal.SearchBar)
       \/ /\ impl = "main" /\ modal.searching /\ modal.search # <<>>
          /\ modal.entries # <<>>
          /\ Range(modal.entries) # SubstringHits(modal.allItems, modal.search)

\* C10: every CommitSearch, whatever the text (empty, or selecting nothing),
\* sets the cursor and the offset to 0.
C10_CommitResetsCursor ==
    [][ /\ zoxide_CommitSearch => (Modal'.Cursor = 0 /\ Modal'.RenderIndex = 0)
        /\ main_CommitSearch => (modal'.cursor = 0 /\ modal'.render = 0) ]_vars

\* the key events of an open modal, in either package
KeyEvent ==
    \/ zoxide_MoveUp \/ zoxide_MoveDown \/ zoxide_BeginSearch \/ zoxide_TypeChar
    \/ zoxide_CommitSearch \/ zoxide_CancelSearch \/ zoxide_Confirm
    \/ zoxide_CloseKey \/ zoxide_OtherKey
    \/ main_MoveUp \/ main_MoveDown \/ main_BeginSearch \/ main_TypeChar
    \/ main_CommitSearch \/ main_CancelSearch \/ main_Confirm
    \/ main_CloseKey \/ main_OtherKey

\* C11: no key event (MoveUp, MoveDown, BeginSearch, typing, CommitSearch,
\* CancelSearch, Confirm, Close) changes allEntries: the master list after the
\* event is the master list before it; filtering replaces displayed only.
C11_KeysKeepAllEntries ==
    [][KeyEvent => /\ Modal'.AllEntries = Modal.AllEntries
                   /\ modal'.allItems = modal.allItems]_vars

\* a commit has narrowed displayed and the master list is still the loaded one
C11_Witness ==
    /\ last.op = "CommitSearch"
    /\ \/ /\ impl = "zoxide"
          /\ Len(Modal.Entries) < Len(Modal.AllEntries)
          /\ Modal.AllEntries \in HistoryOutputs
       \/ /\ impl = "main"
          /\ Len(modal.entries) < Len(modal.allItems)
          /\ modal.allItems \in HistoryOutputs

\* C12: Confirm in browse mode on a non-empty displayed whose cursor indexes
\* an entry returns exactly displayed[cursor] and closes the modal; on an
\* empty displayed it returns no selection, leaves the modal open and changes
\* no list state.  Enter in search mode never yields a selection.
C12_ConfirmSelects ==
    [][/\ (zoxide_Confirm /\ 0 <= Modal.Cursor /\ Modal.Cursor < Len(Modal.Entries))
            => (ret' = Modal.Entries[Modal.Cursor + 1] /\ ~isOpen')
       /\ (zoxide_Confirm /\ Len(Modal.Entries) = 0)
            => (ret' = NoSelection /\ isOpen' /\ Modal' = Modal)
       /\ zoxide_CommitSearch => (ret' = NoSelection /\ isOpen')
       /\ (main_Confirm /\ 0 <= modal.cursor /\ modal.cursor < Len(modal.entries))
            => (ret' = modal.entries[modal.cursor + 1] /\ ~modal'.open)
       /\ (main_Confirm /\ Len(modal.entries) = 0)
            => (ret' = NoSelection /\ modal' = modal)
       /\ main_CommitSearch => (ret' = NoSelection /\ modal'.open)]_vars

\* a Confirm below the first row has closed the modal with that row's entry
C12_Witness ==
    /\ last.op = "Confirm"
    /\ \/ /\ impl = "zoxide" /\ ~isOpen
          /\ Modal.Cursor > 0 /\ Modal.Cursor < Len(Modal.Entries)
          /\ ret = Modal.Entries[Modal.Cursor + 1] /\ ret # Modal.Entries[1]
       \/ /\ impl = "main" /\ ~modal.open
          /\ modal.cursor > 0 /\ modal.cursor < Len(modal.entries)
          /\ ret = modal.entries[modal.cursor + 1] /\ ret # modal.entries[1]

\* the dividers of a list, in the order they occur
Boundaries(dirs) == SelectSeq(dirs, IsBoundary)

\* how often dir occurs in dirs
Count(dir, dirs) == Cardinality({i \in 1..Len(dirs) : dirs[i] = dir})

\* C13: for every sidebar dataset and every query, the output of
\* getFilteredDirectories holds each divider exactly once and in the order
\* Pinned, Disks, however many entries match in each group, none included.
C13_BoundariesPreserved ==
    [][internal_Search =>
         Boundaries(sidebarModel'.directories)
           = <<Directory(PinnedSentinel, <<>>), Directory(DisksSentinel, <<>>)>>]_vars

\* a search that matched no entry of a sidebar that has entries in every group
C13_Witness ==
    /\ impl = "internal" /\ last.op = "Search"
    /\ Len(sidebarModel.directories) = 2
    /\ LET groups == grouped(getDirectories(stat, pinnedFile, partitions))
       IN groups.noneDirs # <<>> /\ groups.pinnedDirs # <<>> /\ groups.diskDirs # <<>>

\* C14: isOpen is guarded by mu: every read and every write of isOpen, in
\* Open, the fetch callback, Close, IsOpen, Update and View, happens while the
\* goroutine that makes it holds mu.
C14_IsOpenGuarded == observed.isOpen.held

\* C15: list state is mutated only inside the handler of one UI event at a
\* time: in no interleaving does the fetch callback write Entries and
\* AllEntries while a key handler is between its reads and its writes of them.
C15_NoConcurrentListWrite == ~observed.overlap

\* the history source fails or lists no path
NoPaths(answer) == answer.err \/ Len(answer.out) = 0

\* C16: if the history source fails or returns no paths the modal does not
\* stay open: once the fetch callback completes with an error or an empty
\* result isOpen is false, and Show leaves the modal closed; and whenever the
\* modal is open after its fetch has completed, allEntries is non-empty.
C16_NoPathsNoModal ==
    [][/\ \A answer \in SourceOutcomes :
            (zoxide_FetchCallbackWith(answer) /\ NoPaths(answer)) => ~isOpen'
       /\ \A baseDir \in Dirs, answer \in SourceOutcomes :
            (main_ShowWith(baseDir, answer, answer) /\ NoPaths(answer) /\ ~modal.open)
               => ~modal'.open
       /\ (isOpen' /\ pending' = 0) => Modal'.AllEntries # <<>>
       /\ modal'.open => modal'.allItems # <<>>]_vars

\* C17: every Show(baseDir) decides from the source's current output: whenever
\* the source lists at least one path for baseDir the modal opens with exactly
\* those paths as entries and allItems, whatever an earlier Show or
\* IsEmptyHistory call for the same baseDir found.
C17_ShowBuildsFresh ==
    [][\A baseDir \in Dirs, answer \in SourceOutcomes :
          (main_ShowWith(baseDir, answer, answer) /\ ~NoPaths(answer))
             => /\ modal'.open
                /\ modal'.entries = answer.out
                /\ modal'.allItems = answer.out]_vars

\* C18: when a directory source cannot be read (pinned file unreadable, pinned
\* data of neither shape, partition enumeration returning an error),
\* getDirectories still returns, the failed source's group is empty, the other
\* groups keep their entries, and both dividers are there in order.
C18_FailedSourceGroupEmpty ==
    [][internal_Load =>
         /\ (~pinnedFile.readable \/ pinnedFile.shape = "other")
              => sidebarModel'.directories
                   = getWellKnownDirectories(stat)
                     \o <<Directory(PinnedSentinel, <<>>), Directory(DisksSentinel, <<>>)>>
                     \o getExternalMediaFolders(partitions)
         /\ partitions.err
              => sidebarModel'.directories
                   = getWellKnownDirectories(stat)
                     \o <<Directory(PinnedSentinel, <<>>)>>
                     \o getPinnedDirectories(pinnedFile)
                     \o <<Directory(DisksSentinel, <<>>)>>]_vars

\* the sidebar shows at least one entry
HasEntry(s) == \E i \in 1..Len(s.directories) : ~IsBoundary(s.directories[i])

\* the cursor is on an entry
OnEntry(s) ==
    /\ 0 <= s.cursor /\ s.cursor < Len(s.directories)
    /\ ~IsBoundary(s.directories[s.cursor + 1])

\* C19: the cursor never rests on a divider: after Replace with any output of
\* the group-preserving filter, and after any MoveUp or MoveDown step or wrap
\* from there, displayed[cursor] is an entry whenever displayed has an entry.
C19_CursorNeverOnBoundary ==
    [][(\/ internal_Search
        \/ (internal_MoveUp \/ internal_MoveDown) /\ OnEntry(sidebarModel))
       => (HasEntry(sidebarModel') => OnEntry(sidebarModel'))]_vars

\* C20: fuzzySearch returns a sub-list of its group, nothing doubled and
\* nothing put in another's place: every directory of the filtered list is a
\* directory of the source, and is there no more often than in the source,
\* also when two directories of a group have the same name.
C20_FuzzySearchSubList ==
    [][internal_Search =>
         LET allDirs == getDirectories(stat, pinnedFile, partitions)
             shown == sidebarModel'.directories
         IN \A i \in 1..Len(shown) :
               ~IsBoundary(shown[i])
                 => Count(shown[i], shown) <= Count(shown[i], allDirs)]_vars

\* C21: no key event acts on a previous session's list: after Close and Open,
\* however key events interleave with the fetch in flight, a Confirm yields
\* only a path of the history fetched by the most recent Open, never an entry
\* an earlier session left in Entries; and the callback of an earlier Open
\* never closes or overwrites the later session.
C21_NoStaleSession ==
    [][/\ (handleKeypress_write /\ ui.key = "enter" /\ ~Modal.SearchMode
              /\ ret' # NoSelection)
            => (sessions.done /\ ret' \in Range(sessions.out))
       /\ \A answer \in SourceOutcomes :
            (Cmd_of(FALSE, answer) /\ isOpen) => (isOpen' /\ Modal' = Modal)]_vars

====
